---- MODULE Spec2Model ----
(***************************************************************************)
(* Model of the drop-targeting firmware: the Targeter (geometry, ballistic *)
(* lead distance, drop decision) and the part of the Communicator that     *)
(* drives it and actuates the drop bay.                                    *)
(*                                                                         *)
(* Fixed-point conventions (TLC has 32-bit integers and no reals):         *)
(*   packed DDDMM.mmm values .... integer thousandths of a minute          *)
(*   decimal degrees ............ integer 1/60000 of a degree              *)
(*   eastings, northings, distances, altitudes ... integer metres          *)
(*   velocity ................... integer metres per second                *)
(*   angles ..................... integer degrees                          *)
(*   millis(), data age, time to drop ... integer milliseconds             *)
(*   fall time .................. integer centiseconds                     *)
(* A double that can be non-finite is a record: Fin(n), NaN, PosInf,       *)
(* NegInf, with the IEEE-754 rules for sqrt, -, / and <.                   *)
(***************************************************************************)
EXTENDS Integers, Sequences, FiniteSets, TLC

VARIABLES
  targeter,          \* the global Targeter object and its member fields
  dropBayServoPos,   \* Communicator::dropBayServoPos
  autoDrop,          \* Communicator::autoDrop
  altitudeAtDrop,    \* Communicator::altitudeAtDrop
  timeAtDrop,        \* Communicator::timeAtDrop
  reset,             \* Communicator::reset
  restart,           \* Communicator::restart
  millis,            \* the Arduino clock, millis()
  lastCall,          \* the Targeter entry point the last step called, "none" if none
  isReadyToDrop,     \* the decision that call returned
  dropCmd,           \* the dropNow(src, state) the last step issued, <<>> if none
  probe,             \* a function applied on its own: its name, arguments and result
  nmeaBufInd         \* Communicator::nmeaBufInd, the next index of nmeaBuf to write

vars == <<targeter, dropBayServoPos, autoDrop, altitudeAtDrop, timeAtDrop,
          reset, restart, millis, lastCall, isReadyToDrop, dropCmd, probe,
          nmeaBufInd>>

-----------------------------------------------------------------------------
(* Bounds of the model *)

MaxTicks == 2        \* the clock stops after this many ticks
TickMs == 500        \* milliseconds per tick of the model's clock
MaxSlowTicks == 5    \* the same for the clock of the slow loop
SlowTickMs == 5000

(* Program constants *)

DROP_BAY_CLOSED == 1500
DROP_BAY_OPEN == 2100
MAXLINELENGTH == 120         \* the length of nmeaBuf
closeDropBayTimeout == 10000 \* milliseconds ("10 seconds" in the comments)
CloseWindowMs == 10000       \* the literal 10000 added to the timeout
FalseEasting == 500000
FalseNorthing == 10000000
LineOffset == 2000           \* metres from P2 to the synthetic point P1
CORRECTION_FACTOR_PCT == 90  \* CORRECTION_FACTOR = 0.9, in percent

-----------------------------------------------------------------------------
(* Doubles that may be non-finite *)

Fin(n) == [k |-> "fin", v |-> n]
NaN == [k |-> "nan", v |-> 0]
PosInf == [k |-> "inf", v |-> 1]
NegInf == [k |-> "inf", v |-> -1]

IsFinite(x) == x.k = "fin"

Abs(n) == IF n < 0 THEN -n ELSE n

\* C's (int) cast of a quotient: truncation toward zero (\div is floor)
TruncDiv(a, b) == IF a >= 0 THEN a \div b ELSE -((-a) \div b)

RECURSIVE SqrtSearch(_, _, _)
SqrtSearch(n, lo, hi) ==
  IF lo >= hi THEN lo
  ELSE LET mid == (lo + hi + 1) \div 2
       IN  IF mid * mid <= n THEN SqrtSearch(n, mid, hi)
           ELSE SqrtSearch(n, lo, mid - 1)

\* floor of the square root of n >= 0 (the root lies below 46341 for 32-bit n)
ISqrt(n) == SqrtSearch(n, 0, IF n < 46340 THEN n ELSE 46340)

\* sqrt(): NaN for a negative argument
FSqrt(x) ==
  CASE x.k = "nan" -> NaN
    [] x.k = "inf" -> IF x.v > 0 THEN PosInf ELSE NaN
    [] OTHER -> IF x.v < 0 THEN NaN ELSE Fin(ISqrt(x.v))

FNeg(x) == IF x.k = "nan" THEN NaN ELSE [k |-> x.k, v |-> -x.v]

FSub(a, b) ==
  CASE a.k = "nan" \/ b.k = "nan" -> NaN
    [] a.k = "inf" /\ b.k = "inf" -> IF a.v = b.v THEN NaN ELSE a
    [] a.k = "inf" -> a
    [] b.k = "inf" -> FNeg(b)
    [] OTHER -> Fin(a.v - b.v)

\* a * n for a finite integer factor n
FScale(a, n) ==
  CASE a.k = "nan" -> NaN
    [] a.k = "inf" -> IF n = 0 THEN NaN ELSE IF n > 0 THEN a ELSE FNeg(a)
    [] OTHER -> Fin(a.v * n)

\* a / b of doubles: x/0 is +-Inf, 0/0 is NaN, nothing traps
FDiv(a, b) ==
  CASE a.k = "nan" \/ b.k = "nan" -> NaN
    [] a.k = "inf" /\ b.k = "inf" -> NaN
    [] a.k = "inf" -> IF b.v >= 0 THEN a ELSE FNeg(a)
    [] b.k = "inf" -> Fin(0)
    [] b.v = 0 -> IF a.v = 0 THEN NaN ELSE IF a.v > 0 THEN PosInf ELSE NegInf
    [] OTHER -> IF b.v > 0 THEN Fin(a.v \div b.v) ELSE Fin((-a.v) \div (-b.v))

\* a < b of doubles: false when either is NaN
FLess(a, b) ==
  CASE a.k = "nan" \/ b.k = "nan" -> FALSE
    [] a.k = "inf" /\ b.k = "inf" -> a.v < b.v
    [] a.k = "inf" -> a.v < 0
    [] b.k = "inf" -> b.v > 0
    [] OTHER -> a.v < b.v

-----------------------------------------------------------------------------
(* Coordinate conversion *)

\* The same with floor() in place of the (int) cast.
convertDecimalDegMinToDegree_floor(decimalDegreeMin) ==
  LET baseDegree == decimalDegreeMin \div 100000
      baseDegMins == decimalDegreeMin - 100000 * baseDegree
  IN  baseDegree * 60000 + baseDegMins

\* Packed DDDMM.mmm (thousandths of a minute) to degrees (1/60000 degree):
\* baseDegree + baseDegMins / 60.0, times 60000, is exact in integers.
convertDecimalDegMinToDegree(decimalDegreeMin) ==
  LET baseDegree == TruncDiv(decimalDegreeMin, 100000)
      baseDegMins == decimalDegreeMin - 100000 * baseDegree
  IN  baseDegree * 60000 + baseDegMins

Deg(d) == d * 60000

Alphabet == <<"A", "B", "C", "D", "E", "F", "G", "H", "I", "J", "K", "L", "M",
              "N", "O", "P", "Q", "R", "S", "T", "U", "V", "W", "X", "Y", "Z">>

\* the character code order of two capital letters
Ord(c) == CHOOSE i \in 1..26 : Alphabet[i] = c

\* (int) floor(lon / 6 + 31)
utmZoneOf(lon) == (lon \div Deg(6)) + 31

\* the if / else-if ladder choosing utmLetter
utmLetterOf(lat) ==
  IF lat < Deg(-72) THEN "C"
  ELSE IF lat < Deg(-64) THEN "D"
  ELSE IF lat < Deg(-56) THEN "E"
  ELSE IF lat < Deg(-48) THEN "F"
  ELSE IF lat < Deg(-40) THEN "G"
  ELSE IF lat < Deg(-32) THEN "H"
  ELSE IF lat < Deg(-24) THEN "J"
  ELSE IF lat < Deg(-16) THEN "K"
  ELSE IF lat < Deg(-8) THEN "L"
  ELSE IF lat < Deg(0) THEN "M"
  ELSE IF lat < Deg(8) THEN "N"
  ELSE IF lat < Deg(16) THEN "P"
  ELSE IF lat < Deg(24) THEN "Q"
  ELSE IF lat < Deg(32) THEN "R"
  ELSE IF lat < Deg(40) THEN "S"
  ELSE IF lat < Deg(48) THEN "T"
  ELSE IF lat < Deg(56) THEN "U"
  ELSE IF lat < Deg(64) THEN "V"
  ELSE IF lat < Deg(72) THEN "W"
  ELSE "X"

\* cos(lat * PI / 180) in thousandths (Bhaskara's rational approximation on
\* whole degrees; the code calls cos())
CosLatPermille(lat) ==
  LET x == Abs(lat) \div 60000
  IN  ((32400 - 4 * x * x) * 1000) \div (32400 + x * x)

\* The easting series, in metres: its leading term
\* 0.9996 * a * cos(lat) * (lon - central meridian), plus the false easting.
\* The higher-order terms of the series are left out.
TMEasting(lat, lon, utmZone) ==
  LET dlon == lon - Deg(6 * utmZone - 183)
  IN  ((((dlon * 1855) \div 1000) * CosLatPermille(lat)) \div 1000) + FalseEasting

\* The northing series before the false northing, in metres: its leading
\* term 0.9996 * (meridian arc length to lat).
TMNorthing(lat, lon, utmZone) ==
  (lat \div 1000) * 1842 + ((lat % 1000) * 1842) \div 1000

\* The same with the false northing added for band M as well.
convertDeg2UTM_le(lat, lon) ==
  LET utmZone == utmZoneOf(lon)
      utmLetter == utmLetterOf(lat)
      n == TMNorthing(lat, lon, utmZone)
  IN  [utmZone |-> utmZone, utmLetter |-> utmLetter,
       utmEasting |-> TMEasting(lat, lon, utmZone),
       utmNorthing |-> IF Ord(utmLetter) <= Ord("M") THEN n + FalseNorthing ELSE n]

\* convertDeg2UTM: the outputs utmEasting, utmNorthing and the locals utmZone,
\* utmLetter.  round(x * 100) * 0.01 keeps centimetres; on the model's
\* one-metre grid the series operators already deliver the rounded value.
convertDeg2UTM(lat, lon) ==
  LET utmZone == utmZoneOf(lon)
      utmLetter == utmLetterOf(lat)
      n == TMNorthing(lat, lon, utmZone)
  IN  [utmZone |-> utmZone, utmLetter |-> utmLetter,
       utmEasting |-> TMEasting(lat, lon, utmZone),
       utmNorthing |-> IF Ord(utmLetter) < Ord("M") THEN n + FalseNorthing ELSE n]

\* The same with 360 added to an angle of 0 as well.
convertHeadingToMathAngle_le(heading) ==
  LET angle == -1 * (heading - 90)
  IN  IF angle <= 0 THEN 360 + angle ELSE angle

\* compass heading to mathematical angle
convertHeadingToMathAngle(heading) ==
  LET angle == -1 * (heading - 90)
  IN  IF angle < 0 THEN 360 + angle ELSE angle

\* cos and sin of a multiple of 45 degrees, in thousandths
CosPermille(a) ==
  CASE a % 360 = 0 -> 1000
    [] a % 360 = 45 -> 707
    [] a % 360 = 90 -> 0
    [] a % 360 = 135 -> -707
    [] a % 360 = 180 -> -1000
    [] a % 360 = 225 -> -707
    [] a % 360 = 270 -> 0
    [] a % 360 = 315 -> 707

SinPermille(a) == CosPermille(a + 270)

-----------------------------------------------------------------------------
(* Targeter: physical calculations.  t is the object's member fields. *)

currentUTM(t) ==
  convertDeg2UTM(convertDecimalDegMinToDegree(t.currentLatitude),
                 convertDecimalDegMinToDegree(t.currentLongitude))

targetUTM(t) ==
  convertDeg2UTM(convertDecimalDegMinToDegree(t.targetLatitude),
                 convertDecimalDegMinToDegree(t.targetLongitude))

\* Step 1: distance from the target to the line of the plane's path
calculateLateralError(t) ==
  LET currentHeadingMathAngle == convertHeadingToMathAngle(t.currentHeading)
      current == currentUTM(t)
      target == targetUTM(t)
      x2 == current.utmEasting
      y2 == current.utmNorthing
      x1 == x2 + (CosPermille(currentHeadingMathAngle) * LineOffset) \div 1000
      y1 == y2 + (SinPermille(currentHeadingMathAngle) * LineOffset) \div 1000
      x0 == target.utmEasting
      y0 == target.utmNorthing
      numerator == Abs((y2 - y1) * x0 - (x2 - x1) * y0 + x2 * y1 - y2 * x1)
      denominator == ISqrt((y2 - y1) * (y2 - y1) + (x2 - x1) * (x2 - x1))
  IN  numerator \div denominator

\* Step 2: direct distance from the current position to the target
calculateDirectDistanceToTarget(t) ==
  LET current == currentUTM(t)
      target == targetUTM(t)
      de == target.utmEasting - current.utmEasting
      dn == target.utmNorthing - current.utmNorthing
  IN  ISqrt(de * de + dn * dn)

\* the radicand of Step 3
pathRadicand(t) ==
  LET direct == calculateDirectDistanceToTarget(t)
  IN  direct * direct - t.lateralError * t.lateralError

\* The same with the radicand clamped at zero.
calculatePathDistanceToTarget_clamped(t) ==
  IF pathRadicand(t) < 0 THEN Fin(0) ELSE FSqrt(Fin(pathRadicand(t)))

\* Step 3: distance along the path to the point nearest the target; reads the
\* member lateralError
calculatePathDistanceToTarget(t) == FSqrt(Fin(pathRadicand(t)))

\* The same without the clamp of a negative height.
calculateDropDistance_noclamp(t) ==
  LET heightm == t.currentAltitude - t.targetAltitude
      fallTime == FSqrt(Fin((20000000 * heightm) \div 9807))
  IN  FDiv(FScale(fallTime, t.currentVelocity * CORRECTION_FACTOR_PCT), Fin(10000))

\* The same without the correction factor.
calculateDropDistance_nofactor(t) ==
  LET heightm0 == t.currentAltitude - t.targetAltitude
      heightm == IF heightm0 < 0 THEN 0 ELSE heightm0
      fallTime == FSqrt(Fin((20000000 * heightm) \div 9807))
  IN  FDiv(FScale(fallTime, t.currentVelocity * 100), Fin(10000))

\* Step 4: how early the payload must be dropped, in metres
\* (fallTime in centiseconds: sqrt(2 * heightm / 9.807) * 100)
calculateDropDistance(t) ==
  LET heightm0 == t.currentAltitude - t.targetAltitude
      heightm == IF heightm0 < 0 THEN 0 ELSE heightm0
      fallTime == FSqrt(Fin((20000000 * heightm) \div 9807))
  IN  FDiv(FScale(fallTime, t.currentVelocity * CORRECTION_FACTOR_PCT), Fin(10000))

dropDistanceToTarget(t) ==
  FSub(calculatePathDistanceToTarget(t), calculateDropDistance(t))

\* The same returning 0 when the velocity is 0.
calculateTimeToDrop_guarded(t, now) ==
  IF t.currentVelocity = 0 THEN Fin(0)
  ELSE FDiv(FSub(FScale(dropDistanceToTarget(t), 1000),
                 Fin(t.currentVelocity * (now - t.currentDataAge))),
            Fin(t.currentVelocity))

\* Step 5: time until the drop location, in milliseconds; now is millis()
calculateTimeToDrop(t, now) ==
  FDiv(FSub(FScale(dropDistanceToTarget(t), 1000),
            Fin(t.currentVelocity * (now - t.currentDataAge))),
       Fin(t.currentVelocity))

-----------------------------------------------------------------------------
(* Targeter: entry points.  Each gives the members after the call (state)  *)
(* and, for the two that return a decision, the value returned (ret).      *)

\* dropDistanceToTarget() < targetRaduis
readyToDrop(t) == FLess(dropDistanceToTarget(t), Fin(t.targetRaduis))

\* The same deciding on the members as they were before the new data is stored.
setCurrentData_stale(t, lat, lon, alt, vel, hdg, age) ==
  [state |-> [t EXCEPT !.currentLatitude = lat, !.currentLongitude = lon,
                       !.currentAltitude = alt, !.currentVelocity = vel,
                       !.currentHeading = hdg, !.currentDataAge = age],
   ret |-> readyToDrop(t)]

\* setCurrentData: stores the six arguments; calculateLateralError() and
\* calculateTimeToDrop() are called and their results dropped, so the members
\* lateralError and timeToDrop keep their values
setCurrentData(t, lat, lon, alt, vel, hdg, age) ==
  LET t1 == [t EXCEPT !.currentLatitude = lat, !.currentLongitude = lon,
                      !.currentAltitude = alt, !.currentVelocity = vel,
                      !.currentHeading = hdg, !.currentDataAge = age]
  IN  [state |-> t1, ret |-> readyToDrop(t1)]

\* setTargetData: stores the three arguments; the two results are dropped as
\* above; returns nothing
setTargetData(t, lat, lon, alt) ==
  [t EXCEPT !.targetLatitude = lat, !.targetLongitude = lon, !.targetAltitude = alt]

\* The same deciding on the distance less the way flown since the data was
\* stored.
recalculate_projected(t) ==
  [state |-> t,
   ret |-> FLess(FSub(dropDistanceToTarget(t),
                      Fin((t.currentVelocity * (millis - t.currentDataAge)) \div 1000)),
                 Fin(t.targetRaduis))]

\* recalculate: the two results are dropped as above
recalculate(t) == [state |-> t, ret |-> readyToDrop(t)]

getLateralError(t) == t.lateralError

getTimeToDrop(t) == t.timeToDrop

-----------------------------------------------------------------------------
(* Inputs.  Positions lie on a grid of 0.020 minute (about 37 m) just north *)
(* of the equator and east of the prime meridian, where the squares of the  *)
(* distances fit TLC's integers.                                            *)

GridLatitudes == {0, 20, 40}
GridLongitudes == {0, 20}
Speeds == {0, 10}
Headings == {0, 45}
Altitudes == {0, 100}
TargetAltitudes == {0, 50}

\* the acceptance radius, a member the sources under src/ never assign
TargetRadii == {5}

\* the members of a Targeter in static storage before any call: all zero
\* but the radius
NewTargeter(r) ==
  [currentLatitude |-> 0, currentLongitude |-> 0,
   targetLatitude |-> 0, targetLongitude |-> 0,
   currentHeading |-> 0, lateralError |-> 0,
   currentAltitude |-> 0, targetAltitude |-> 0,
   currentVelocity |-> 0, currentDataAge |-> 0,
   targetRaduis |-> r, timeToDrop |-> Fin(0)]

NoProbe == [fn |-> "none", arg |-> <<>>, out |-> <<>>]

-----------------------------------------------------------------------------
(* Communicator *)

\* The same without the auto-drop protection.
dropNow_unprotected(src, state, alt) ==
  /\ dropCmd' = <<src, state>>
  /\ IF state = 0
       THEN /\ dropBayServoPos' = DROP_BAY_CLOSED
            /\ UNCHANGED <<altitudeAtDrop, timeAtDrop>>
       ELSE /\ dropBayServoPos' = DROP_BAY_OPEN
            /\ altitudeAtDrop' = alt
            /\ timeAtDrop' = millis

\* dropNow(src, state): src = 1 is the automatic drop, state = 1 opens;
\* alt is Communicator::altitude, which the sketch's altimeter code writes
dropNow(src, state, alt) ==
  /\ dropCmd' = <<src, state>>
  /\ IF src = 1 /\ autoDrop = FALSE /\ state = 1
       THEN UNCHANGED <<dropBayServoPos, altitudeAtDrop, timeAtDrop>>
       ELSE IF state = 0
              THEN /\ dropBayServoPos' = DROP_BAY_CLOSED
                   /\ UNCHANGED <<altitudeAtDrop, timeAtDrop>>
              ELSE /\ dropBayServoPos' = DROP_BAY_OPEN
                   /\ altitudeAtDrop' = alt
                   /\ timeAtDrop' = millis

noDrop == dropCmd' = <<>> /\ UNCHANGED <<dropBayServoPos, altitudeAtDrop, timeAtDrop>>

\* recalculateTargettingNow(withNewData), the build without Targeter_Test;
\* gps is GPS.latitude, .longitude, .speed, .angle and alt is altitude
recalculateTargettingNow(withNewData, gps, alt) ==
  LET r == IF withNewData
             THEN setCurrentData(targeter, gps.latitude, gps.longitude, alt,
                                 gps.speed, gps.angle, millis)
             ELSE recalculate(targeter)
  IN  /\ targeter' = r.state
      /\ isReadyToDrop' = r.ret
      /\ lastCall' = IF withNewData THEN "setCurrentData" ELSE "recalculate"
      /\ IF r.ret /\ autoDrop THEN dropNow(1, 1, alt) ELSE noDrop
      /\ UNCHANGED <<autoDrop, reset, restart, millis, probe>>

\* recieveCommands with one byte waiting on the XBee serial port
recieveCommands(incomingByte, alt) ==
  /\ IF incomingByte = "o" THEN dropNow(0, 1, alt)
     ELSE IF incomingByte = "c" \/ incomingByte = "q" THEN dropNow(0, 0, alt)
     ELSE noDrop
  /\ autoDrop' = IF incomingByte = "a" THEN TRUE
                 ELSE IF incomingByte = "n" THEN FALSE ELSE autoDrop
  /\ reset' = IF incomingByte = "r" THEN TRUE ELSE reset
  /\ restart' = IF incomingByte = "q" THEN TRUE ELSE restart
  /\ lastCall' = "none"
  /\ isReadyToDrop' = FALSE
  /\ UNCHANGED <<targeter, millis, probe, nmeaBufInd>>

\* the command bytes recieveCommands tells apart, and one it ignores
CommandBytes == {"o", "c", "a", "n", "r", "q", "g", "b"}

\* what GPS.parse leaves in GPS.latitude, .longitude, .speed and .angle
GPSFixes == [angle : {0}, latitude : {0, 40}, longitude : {0}, speed : Speeds]

\* The same resetting the index only once it has passed MAXLINELENGTH.
getSerialDataFromGPS_gt(byte, gps, alt) ==
  IF byte = "\n"
    THEN /\ nmeaBufInd' = 0
         /\ recalculateTargettingNow(TRUE, gps, alt)
    ELSE /\ nmeaBufInd' = IF nmeaBufInd + 1 > MAXLINELENGTH THEN 0 ELSE nmeaBufInd + 1
         /\ noDrop
         /\ lastCall' = "none"
         /\ isReadyToDrop' = FALSE
         /\ UNCHANGED <<targeter, autoDrop, reset, restart, millis, probe>>

\* getSerialDataFromGPS, one pass of its while loop: byte is stored at
\* nmeaBuf[nmeaBufInd]; a newline ends the sentence (GPS.parse leaves gps in
\* the GPS fields whether it succeeds or not), resets the index and calls
\* recalculateTargettingNow(true); any other byte advances the index, which
\* goes back to 0 when it reaches MAXLINELENGTH
getSerialDataFromGPS(byte, gps, alt) ==
  IF byte = "\n"
    THEN /\ nmeaBufInd' = 0
         /\ recalculateTargettingNow(TRUE, gps, alt)
    ELSE /\ nmeaBufInd' = IF nmeaBufInd + 1 >= MAXLINELENGTH THEN 0 ELSE nmeaBufInd + 1
         /\ noDrop
         /\ lastCall' = "none"
         /\ isReadyToDrop' = FALSE
         /\ UNCHANGED <<targeter, autoDrop, reset, restart, millis, probe>>

\* the newline of a GPS sentence arrives: recalculateTargettingNow(true)
NewGPSData ==
  \E gps \in GPSFixes, alt \in Altitudes : getSerialDataFromGPS("\n", gps, alt)

\* the medium loop: recalculateTargettingNow(false), which reads no GPS field
MediumLoop ==
  \E alt \in Altitudes :
    /\ recalculateTargettingNow(FALSE, CHOOSE gps \in GPSFixes : TRUE, alt)
    /\ UNCHANGED nmeaBufInd

Command ==
  \E incomingByte \in CommandBytes :
    \E alt \in IF incomingByte = "o" THEN Altitudes ELSE {0} :
      recieveCommands(incomingByte, alt)

\* a new target is given to the global Targeter
NewTarget ==
  \E lat \in {40} :
    /\ targeter' = setTargetData(targeter, lat, 0, 0)
    /\ lastCall' = "setTargetData"
    /\ isReadyToDrop' = FALSE
    /\ dropCmd' = <<>>
    /\ UNCHANGED <<dropBayServoPos, autoDrop, altitudeAtDrop, timeAtDrop,
                   reset, restart, millis, probe, nmeaBufInd>>

\* time passes
Tick ==
  /\ millis < MaxTicks * TickMs
  /\ millis' = millis + TickMs
  /\ lastCall' = "none"
  /\ isReadyToDrop' = FALSE
  /\ dropCmd' = <<>>
  /\ UNCHANGED <<targeter, dropBayServoPos, autoDrop, altitudeAtDrop, timeAtDrop,
                 reset, restart, probe, nmeaBufInd>>

\* after Communicator::initialize()
Init ==
  /\ \E r \in TargetRadii : targeter = NewTargeter(r)
  /\ dropBayServoPos = DROP_BAY_CLOSED
  /\ autoDrop = TRUE
  /\ altitudeAtDrop = 0
  /\ timeAtDrop = 0
  /\ reset = FALSE
  /\ restart = FALSE
  /\ millis = 0
  /\ lastCall = "none"
  /\ isReadyToDrop = FALSE
  /\ dropCmd = <<>>
  /\ probe = NoProbe
  /\ nmeaBufInd = 0

Next == NewGPSData \/ MediumLoop \/ Command \/ NewTarget \/ Tick

Spec == Init /\ [][Next]_vars

-----------------------------------------------------------------------------
(* The drop bay: the Communicator's handlers, dropNow called by the main   *)
(* program, and checkToCloseDropBay called by the slow loop, on a clock    *)
(* that spans the close timeout                                            *)

\* checkToCloseDropBay: millis() - timeAtDrop is unsigned; the clock of the
\* model never wraps, so the difference is never negative
checkToCloseDropBay ==
  /\ IF dropBayServoPos = DROP_BAY_OPEN
        /\ millis - timeAtDrop >= closeDropBayTimeout
        /\ millis - timeAtDrop < closeDropBayTimeout + CloseWindowMs
       THEN dropNow(0, 0, 0)
       ELSE noDrop
  /\ lastCall' = "none"
  /\ isReadyToDrop' = FALSE
  /\ UNCHANGED <<targeter, autoDrop, reset, restart, millis, probe, nmeaBufInd>>

CheckToCloseDropBay == checkToCloseDropBay

\* the main program calls the public dropNow(src, state)
CallDropNow ==
  \E src \in {0, 1}, state \in {0, 1}, alt \in Altitudes :
    /\ dropNow(src, state, alt)
    /\ lastCall' = "none"
    /\ isReadyToDrop' = FALSE
    /\ UNCHANGED <<targeter, autoDrop, reset, restart, millis, probe, nmeaBufInd>>

\* the four bytes that open or close the bay or switch the automatic drop
BayCommand ==
  \E incomingByte \in {"o", "c", "a", "n"} :
    \E alt \in IF incomingByte = "o" THEN Altitudes ELSE {0} :
      recieveCommands(incomingByte, alt)

\* time passes, in steps of the slow loop
SlowTick ==
  /\ millis < MaxSlowTicks * SlowTickMs
  /\ millis' = millis + SlowTickMs
  /\ lastCall' = "none"
  /\ isReadyToDrop' = FALSE
  /\ dropCmd' = <<>>
  /\ UNCHANGED <<targeter, dropBayServoPos, autoDrop, altitudeAtDrop, timeAtDrop,
                 reset, restart, probe, nmeaBufInd>>

NextBay ==
  \/ NewGPSData
  \/ MediumLoop
  \/ BayCommand
  \/ CallDropNow
  \/ CheckToCloseDropBay
  \/ SlowTick

SpecBay == Init /\ [][NextBay]_vars

-----------------------------------------------------------------------------
(* The GPS serial port: getSerialDataFromGPS, byte by byte *)

GPSBytes == {"\n", "$"}

GPSByte ==
  \E byte \in GPSBytes, gps \in GPSFixes, alt \in Altitudes :
    getSerialDataFromGPS(byte, gps, alt)

NextGPS == GPSByte

SpecGPS == Init /\ [][NextGPS]_vars

-----------------------------------------------------------------------------
(* The Targeter driven through its public entry points *)

CommunicatorIdle ==
  /\ dropCmd' = <<>>
  /\ UNCHANGED <<dropBayServoPos, autoDrop, altitudeAtDrop, timeAtDrop, reset, restart,
                 probe, nmeaBufInd>>

CallSetCurrentData ==
  \E lat \in GridLatitudes, lon \in GridLongitudes, alt \in Altitudes,
     vel \in Speeds, hdg \in Headings :
    LET r == setCurrentData(targeter, lat, lon, alt, vel, hdg, millis)
    IN  /\ targeter' = r.state
        /\ isReadyToDrop' = r.ret
        /\ lastCall' = "setCurrentData"
        /\ UNCHANGED millis
        /\ CommunicatorIdle

CallSetTargetData ==
  \E lat \in GridLatitudes, alt \in TargetAltitudes :
    /\ targeter' = setTargetData(targeter, lat, 0, alt)
    /\ isReadyToDrop' = FALSE
    /\ lastCall' = "setTargetData"
    /\ UNCHANGED millis
    /\ CommunicatorIdle

CallRecalculate ==
  LET r == recalculate(targeter)
  IN  /\ targeter' = r.state
      /\ isReadyToDrop' = r.ret
      /\ lastCall' = "recalculate"
      /\ UNCHANGED millis
      /\ CommunicatorIdle

NextTargeter == CallSetCurrentData \/ CallSetTargetData \/ CallRecalculate \/ Tick

SpecTargeter == Init /\ [][NextTargeter]_vars

-----------------------------------------------------------------------------
(* The same entry points with time passing between the calls *)

\* time passes between two calls; what the last call returned stays in view
TimePasses ==
  /\ millis < MaxTicks * TickMs
  /\ millis' = millis + TickMs
  /\ UNCHANGED <<targeter, dropBayServoPos, autoDrop, altitudeAtDrop, timeAtDrop,
                 reset, restart, lastCall, isReadyToDrop, dropCmd, probe, nmeaBufInd>>

NextRecalc == CallSetCurrentData \/ CallSetTargetData \/ CallRecalculate \/ TimePasses

SpecRecalc == Init /\ [][NextRecalc]_vars

-----------------------------------------------------------------------------
(* The member functions applied to a Targeter whose members hold any values *)
(* (the constructor assigns none of them)                                   *)

AnyTargeter ==
  [currentLatitude : GridLatitudes, currentLongitude : GridLongitudes,
   targetLatitude : {0, 40}, targetLongitude : {0},
   currentHeading : {0}, lateralError : {0, 30, 100},
   currentAltitude : Altitudes, targetAltitude : TargetAltitudes,
   currentVelocity : Speeds, currentDataAge : {0},
   targetRaduis : TargetRadii, timeToDrop : {Fin(0)}]

InitFn ==
  /\ targeter \in AnyTargeter
  /\ dropBayServoPos = DROP_BAY_CLOSED
  /\ autoDrop = TRUE
  /\ altitudeAtDrop = 0
  /\ timeAtDrop = 0
  /\ reset = FALSE
  /\ restart = FALSE
  /\ millis \in {0, TickMs}
  /\ lastCall = "none"
  /\ isReadyToDrop = FALSE
  /\ dropCmd = <<>>
  /\ probe = NoProbe
  /\ nmeaBufInd = 0

Applied(fn, arg, out) ==
  /\ probe' = [fn |-> fn, arg |-> arg, out |-> out]
  /\ UNCHANGED <<targeter, dropBayServoPos, autoDrop, altitudeAtDrop, timeAtDrop,
                 reset, restart, millis, lastCall, isReadyToDrop, dropCmd, nmeaBufInd>>

ApplyCalculatePathDistanceToTarget ==
  Applied("calculatePathDistanceToTarget", <<>>, calculatePathDistanceToTarget(targeter))

ApplyCalculateDropDistance ==
  Applied("calculateDropDistance", <<>>, calculateDropDistance(targeter))

ApplyCalculateTimeToDrop ==
  Applied("calculateTimeToDrop", <<millis>>, calculateTimeToDrop(targeter, millis))

NextFn ==
  \/ ApplyCalculatePathDistanceToTarget
  \/ ApplyCalculateDropDistance
  \/ ApplyCalculateTimeToDrop

SpecFn == InitFn /\ [][NextFn]_vars

-----------------------------------------------------------------------------
(* The conversions applied to arguments of their own *)

\* packed values: north and east positive, south and west negative
PackedArgs ==
  {4413546, 4413688, 7629504, 7600000, 59999, 100000, 0,
   -7629504, -7629518, -7600000, -59999, -100000, -4413546, -1}

\* latitudes at, and one unit below, every multiple of 8 degrees and more
LatArgs == {Deg(4 * d) - e : d \in -22..22, e \in {0, 1}}

LonArgs == {Deg(3), Deg(-76) - 29504}

ApplyConvertDecimalDegMinToDegree ==
  \E v \in PackedArgs :
    Applied("convertDecimalDegMinToDegree", <<v>>, convertDecimalDegMinToDegree(v))

ApplyConvertDeg2UTM ==
  \E lat \in LatArgs, lon \in LonArgs :
    Applied("convertDeg2UTM", <<lat, lon>>, convertDeg2UTM(lat, lon))

\* every whole compass heading, 0 and 360 both included
HeadingArgs == 0..360

ApplyConvertHeadingToMathAngle ==
  \E heading \in HeadingArgs :
    Applied("convertHeadingToMathAngle", <<heading>>, convertHeadingToMathAngle(heading))

NextConv ==
  \/ ApplyConvertDecimalDegMinToDegree
  \/ ApplyConvertDeg2UTM
  \/ ApplyConvertHeadingToMathAngle

SpecConv == Init /\ [][NextConv]_vars

-----------------------------------------------------------------------------
(* Properties *)

Called == lastCall \in {"setCurrentData", "setTargetData", "recalculate"}

C2_LateralErrorIsCurrent ==
  Called => getLateralError(targeter) = calculateLateralError(targeter)

\* C3: once an entry point has returned, the path distance it computed and the
\* lateral error of the same stored state pair satisfy
\* pathDistance^2 + lateralError^2 = directDistance^2 (to within the rounding
\* of the square roots) whenever aircraft and target are apart.
C3_PathLateralDirectTriangle ==
  (Called /\ calculateDirectDistanceToTarget(targeter) > 0) =>
    LET path == calculatePathDistanceToTarget(targeter)
        lateral == calculateLateralError(targeter)
        direct == calculateDirectDistanceToTarget(targeter)
    IN  /\ IsFinite(path)
        /\ Abs(path.v * path.v + lateral * lateral - direct * direct)
             <= 2 * (path.v + lateral + direct) + 3

C5_NoAutomaticDropAtZeroVelocity ==
  ~(dropCmd = <<1, 1>> /\ targeter.currentVelocity = 0)

\* C6: calculateTimeToDrop with currentVelocity = 0 returns Inf or NaN, never 0
\* or another finite time.
C6_ZeroVelocityTimeIsNotFinite ==
  (probe.fn = "calculateTimeToDrop" /\ targeter.currentVelocity = 0) =>
    probe.out \in {PosInf, NegInf, NaN}

\* C6 witness: calculateTimeToDrop has returned for velocity 0, once with a
\* distance remaining (Inf) -- the 0/0 case (NaN) is reached as well.
C6_Witness ==
  /\ probe.fn = "calculateTimeToDrop"
  /\ targeter.currentVelocity = 0
  /\ probe.out = PosInf

\* C7: calculateDropDistance returns exactly 0 whenever
\* currentAltitude - targetAltitude is negative, for every velocity.
C7_NegativeHeightGivesZero ==
  (probe.fn = "calculateDropDistance"
     /\ targeter.currentAltitude - targeter.targetAltitude < 0) =>
    probe.out = Fin(0)

\* C7 witness: calculateDropDistance has returned 0 for a moving aircraft below
\* its target.
C7_Witness ==
  /\ probe.fn = "calculateDropDistance"
  /\ targeter.currentAltitude < targeter.targetAltitude
  /\ targeter.currentVelocity > 0
  /\ probe.out = Fin(0)

\* C8: once an entry point has returned with nonzero velocity, getTimeToDrop()
\* is (remainingDistance - velocity * (now - data age) / 1000) / velocity on
\* the stored state at that call.
C8_TimeToDropIsCurrent ==
  (Called /\ targeter.currentVelocity # 0) =>
    getTimeToDrop(targeter) =
      FDiv(FSub(FScale(dropDistanceToTarget(targeter), 1000),
                Fin(targeter.currentVelocity * (millis - targeter.currentDataAge))),
           Fin(targeter.currentVelocity))

\* floor(V / 100) + (V - 100 * floor(V / 100)) / 60, in 1/60000 degree
FloorFormula(V) == (V \div 100000) * 60000 + (V - 100000 * (V \div 100000))

\* C9 as stated: for every packed value V, positive or negative,
\* convertDecimalDegMinToDegree(V) = floor(V/100) + (V - 100*floor(V/100))/60.
C9_FloorFormulaForEveryV ==
  probe.fn = "convertDecimalDegMinToDegree" => probe.out = FloorFormula(probe.arg[1])

\* C9 amended: the formula holds for V >= 0; for V < 0 the result is the
\* negative of the formula applied to -V (degrees truncated toward zero).
C9_FloorFormulaOnMagnitude ==
  probe.fn = "convertDecimalDegMinToDegree" =>
    LET V == probe.arg[1]
    IN  probe.out = IF V >= 0 THEN FloorFormula(V) ELSE -FloorFormula(-V)

\* C9 witness: the western longitude -7629.504 has been converted to
\* -(76 + 29.504 / 60) degrees.
C9_Witness ==
  /\ probe.fn = "convertDecimalDegMinToDegree"
  /\ probe.arg = <<-7629504>>
  /\ probe.out = -(76 * 60000 + 29504)

BandLetters == <<"C", "D", "E", "F", "G", "H", "J", "K", "L", "M",
                 "N", "P", "Q", "R", "S", "T", "U", "V", "W", "X">>

\* C10: convertDeg2UTM takes the band letter of the latitude from the 8-degree
\* ladder C..X (without I and O) and adds the 10,000,000 m false northing
\* exactly when that letter is south of 'M', that is for latitudes below -8
\* degrees: not for band M, not for a northern band.
C10_BandLetterAndFalseNorthing ==
  probe.fn = "convertDeg2UTM" =>
    LET lat == probe.arg[1]
        lon == probe.arg[2]
        step == (lat + Deg(80)) \div Deg(8)
        band == IF step < 0 THEN 0 ELSE IF step > 19 THEN 19 ELSE step
        added == probe.out.utmNorthing - TMNorthing(lat, lon, utmZoneOf(lon))
    IN  /\ probe.out.utmLetter = BandLetters[band + 1]
        /\ added = IF lat < Deg(-8) THEN 10000000 ELSE 0
        /\ (added # 0) <=> (Ord(probe.out.utmLetter) < Ord("M"))

\* C10 witness: a latitude of band M has been converted and its northing is
\* negative, no false northing added.
C10_Witness ==
  /\ probe.fn = "convertDeg2UTM"
  /\ probe.out.utmLetter = "M"
  /\ probe.arg[1] = Deg(-8)
  /\ probe.out.utmNorthing < 0

\* C11 as stated: for every heading h in 0..360,
\* convertHeadingToMathAngle(h) = 360 - ((h - 90) mod 360).
C11_MathAngleIs360MinusMod ==
  probe.fn = "convertHeadingToMathAngle" =>
    probe.out = 360 - ((probe.arg[1] - 90) % 360)

\* C11 amended: for every heading h in 0..360 the result is the
\* counter-clockwise-from-east angle reduced to [0, 360), that is
\* (360 - ((h - 90) mod 360)) mod 360 = (450 - h) mod 360; heading 90 (east)
\* gives 0, not 360.
C11_MathAngleReducedBelow360 ==
  probe.fn = "convertHeadingToMathAngle" =>
    /\ probe.out = (360 - ((probe.arg[1] - 90) % 360)) % 360
    /\ probe.out = (450 - probe.arg[1]) % 360
    /\ probe.out \in 0..359

\* C11 witness: heading 90 has been converted, to 0.
C11_Witness ==
  /\ probe.fn = "convertHeadingToMathAngle"
  /\ probe.arg = <<90>>
  /\ probe.out = 0

\* velocities and altitudes the lead distance is compared on
CompareSpeeds == {0, 1, 5, 10, 11, 25, 50}
CompareAltitudes == {0, 1, 10, 49, 50, 51, 75, 100}

\* C12: calculateDropDistance is velocity * sqrt(2 * max(heightDelta, 0) / 9.807)
\* * 0.9 (fall time to the centisecond, distance to the metre), it does not
\* decrease when currentVelocity >= 0 grows at a fixed altitude delta, and it
\* does not decrease when the altitude delta grows at a fixed velocity >= 0.
C12_LeadDistanceFormulaAndMonotone ==
  (probe.fn = "calculateDropDistance" /\ targeter.currentVelocity >= 0) =>
    LET vel == targeter.currentVelocity
        delta == targeter.currentAltitude - targeter.targetAltitude
        radicand == (20000000 * (IF delta < 0 THEN 0 ELSE delta)) \div 9807
    IN  /\ \E ft \in 0..500 :
             /\ ft * ft <= radicand /\ radicand < (ft + 1) * (ft + 1)
             /\ probe.out = Fin((vel * ft * 90) \div 10000)
        /\ \A vel2 \in CompareSpeeds :
             vel2 >= vel =>
               ~FLess(calculateDropDistance([targeter EXCEPT !.currentVelocity = vel2]),
                      probe.out)
        /\ \A alt2 \in CompareAltitudes :
             alt2 >= targeter.currentAltitude =>
               ~FLess(calculateDropDistance([targeter EXCEPT !.currentAltitude = alt2]),
                      probe.out)

\* C12 witness: calculateDropDistance has returned 40 m for 10 m/s at 100 m
\* above the target (4.51 s of fall).
C12_Witness ==
  /\ probe.fn = "calculateDropDistance"
  /\ targeter.currentVelocity = 10
  /\ targeter.currentAltitude - targeter.targetAltitude = 100
  /\ probe.out = Fin(40)

\* C13: while autoDrop is false, an automatic opening command dropNow(1, 1)
\* changes neither dropBayServoPos, altitudeAtDrop nor timeAtDrop, and
\* whatever moves the bay to DROP_BAY_OPEN (or renews the opening) is a manual
\* open, dropNow(0, 1), as INCOME_DROP_OPEN issues it.
C13_AutoDropProtection ==
  [][~autoDrop =>
       /\ dropCmd' = <<1, 1>> =>
            UNCHANGED <<dropBayServoPos, altitudeAtDrop, timeAtDrop>>
       /\ (/\ dropBayServoPos' = DROP_BAY_OPEN
           /\ <<dropBayServoPos, altitudeAtDrop, timeAtDrop>>'
                # <<dropBayServoPos, altitudeAtDrop, timeAtDrop>>) =>
            dropCmd' = <<0, 1>>]_vars

\* C13 witness: dropNow(1, 1) has been called with autoDrop false and the bay
\* is still closed.
C13_Witness ==
  /\ dropCmd = <<1, 1>>
  /\ ~autoDrop
  /\ dropBayServoPos = DROP_BAY_CLOSED

\* C14: a call of checkToCloseDropBay with the bay open and the close timeout
\* passed since it was opened leaves the bay closed.
C14_CheckClosesAfterTimeout ==
  [][(/\ CheckToCloseDropBay
      /\ dropBayServoPos = DROP_BAY_OPEN
      /\ millis - timeAtDrop >= closeDropBayTimeout) =>
       dropBayServoPos' = DROP_BAY_CLOSED]_vars

\* C15: whenever getSerialDataFromGPS is about to write nmeaBuf[nmeaBufInd],
\* 0 <= nmeaBufInd < MAXLINELENGTH, and after a newline (the pass that called
\* setCurrentData) the index is 0.
C15_IndexInsideBuffer ==
  /\ nmeaBufInd \in 0..(MAXLINELENGTH - 1)
  /\ lastCall = "setCurrentData" => nmeaBufInd = 0

\* C15 witness: MAXLINELENGTH - 1 bytes have come without a newline; the next
\* write falls on the last element of nmeaBuf.
C15_Witness ==
  /\ nmeaBufInd = MAXLINELENGTH - 1
  /\ lastCall = "none"

\* C16: recalculate() leaves every member of the Targeter (aircraft state and
\* target state) as it was, and returns the decision the preceding
\* setCurrentData or recalculate returned, however much time has passed since.
C16_RecalculateKeepsStateAndDecision ==
  [][CallRecalculate =>
       /\ targeter' = targeter
       /\ lastCall \in {"setCurrentData", "recalculate"} =>
            isReadyToDrop' = isReadyToDrop]_vars

\* C16 witness: recalculate has returned false for a moving aircraft some time
\* after its data was stored.
C16_Witness ==
  /\ lastCall = "recalculate"
  /\ millis > targeter.currentDataAge
  /\ targeter.currentVelocity > 0
  /\ ~isReadyToDrop

====
